---- MODULE Spec2Model ----
(***************************************************************************)
(* The S3-triggered Excel import handler: src/handler.ts (TypeScript) and  *)
(* its JavaScript sibling src/unnamed/part_000.  One invocation is a       *)
(* state machine whose steps are the code segments between the awaited     *)
(* collaborator calls (S3 GetObject, XLSX decoding, DynamoDB               *)
(* BatchWriteItem).  Strings the code inspects character by character      *)
(* (object keys, e-mail addresses, URLs, userIds) are sequences of         *)
(* one-character strings.                                                  *)
(***************************************************************************)
EXTENDS Integers, Sequences, FiniteSets, TLC

VARIABLES
    variant,      \* "ts" = src/handler.ts, "js" = src/unnamed/part_000
    event,        \* the trigger event handed to handler
    pc,           \* position of the invocation
    returned,     \* "none" while running, "normal" | "threw" once handler ended
    bucket, key,  \* locals of handler
    fetchCalls,   \* s3.send(GetObjectCommand) calls, with their outcome
    buffer,       \* what streamToBuffer returned
    workbook,     \* what XLSX.read returned: the sequence of sheets
    jsonData,     \* what XLSX.utils.sheet_to_json returned
    validUsers, errors, putRequests,
    batches,      \* local of writeToDynamoDBInBatches
    bi,           \* 1-based position of the for..of loop over batches
    awaiting,     \* TRUE while a dynamoDB.send call is awaited
    writeCalls,   \* dynamoDB.send(BatchWriteItemCommand) calls, with outcome
    table,        \* items of userTable, at most one per userId
    logs,         \* console output of the invocation, in order
    pItems, pAcc, pIndex,  \* putRequests.reduce run on its own
    vRow, vIndex,          \* validateUser run on its own: its arguments,
    vResult, vItem,        \*   its result and the put request built from the row
    runs,                  \* the write phases of several invocations of handler
    applied                \* the batch writes the table applied, in order

hvars == <<variant, event, pc, returned, bucket, key, fetchCalls, buffer,
           workbook, jsonData, validUsers, errors, putRequests, batches, bi,
           awaiting, writeCalls, table, logs>>
pvars == <<pItems, pAcc, pIndex>>
vvars == <<vRow, vIndex, vResult, vItem>>
mvars == <<runs, applied>>
vars == <<hvars, pvars, vvars, mvars>>

----
(* Program constants *)
TABLE_NAME == "userTable"
BATCH_SIZE == 25

(* Bounds of the model *)
MaxRecords == 2
MaxRows == 52
MaxItems == 52
MaxIndex == 1

----
(* JavaScript values of a spreadsheet cell *)
Undefined == [t |-> "undefined", s |-> <<>>, n |-> 0]
Null == [t |-> "object", s |-> <<>>, n |-> 0]
Str(chars) == [t |-> "string", s |-> chars, n |-> 0]
Num(k) == [t |-> "number", s |-> <<>>, n |-> k]
Bool(b) == [t |-> "boolean", s |-> <<>>, n |-> IF b THEN 1 ELSE 0]

TypeOf(v) == v.t

Truthy(v) ==
    CASE v.t = "string" -> v.s # <<>>
      [] v.t = "number" -> v.n # 0
      [] v.t = "boolean" -> v.n = 1
      [] OTHER -> FALSE

Digit(d) == <<"0", "1", "2", "3", "4", "5", "6", "7", "8", "9">>[d + 1]

RECURSIVE NatToChars(_)
NatToChars(k) ==
    IF k < 10 THEN <<Digit(k)>> ELSE NatToChars(k \div 10) \o <<Digit(k % 10)>>

\* String(v) / v.toString() / the coercion RegExp.prototype.test applies
ToChars(v) ==
    CASE v.t = "string" -> v.s
      [] v.t = "number" ->
            IF v.n < 0 THEN <<"-">> \o NatToChars(-v.n) ELSE NatToChars(v.n)
      [] v.t = "boolean" ->
            IF v.n = 1 THEN <<"t", "r", "u", "e">> ELSE <<"f", "a", "l", "s", "e">>
      [] v.t = "undefined" -> <<"u", "n", "d", "e", "f", "i", "n", "e", "d">>
      [] OTHER -> <<"n", "u", "l", "l">>

IsSpace(c) == c \in {" ", "\t", "\n", "\r"}

\* a pattern whose last part takes any non-space character
isValidEmail_LooseTld(e) ==
    LET Cls(c) == ~IsSpace(c) /\ c # "@"
        AllCls(a, b) == a <= b /\ \A x \in a..b : Cls(e[x])
        AllNonSpace(a, b) == a <= b /\ \A x \in a..b : ~IsSpace(e[x])
    IN \E i \in 1..Len(e) : \E j \in (i + 1)..Len(e) :
          /\ e[i] = "@"
          /\ e[j] = "."
          /\ AllCls(1, i - 1)
          /\ AllCls(i + 1, j - 1)
          /\ AllNonSpace(j + 1, Len(e))

\* /^[^\s@]+@[^\s@]+\.[^\s@]+$/
isValidEmail(e) ==
    LET Cls(c) == ~IsSpace(c) /\ c # "@"
        AllCls(a, b) == a <= b /\ \A x \in a..b : Cls(e[x])
    IN \E i \in 1..Len(e) : \E j \in (i + 1)..Len(e) :
          /\ e[i] = "@"
          /\ e[j] = "."
          /\ AllCls(1, i - 1)
          /\ AllCls(i + 1, j - 1)
          /\ AllCls(j + 1, Len(e))

\* /^(https?:\/\/[^\s]+)$/
isValidUrl(u) ==
    LET HasPrefix(p) == Len(u) >= Len(p) /\ SubSeq(u, 1, Len(p)) = p
        Rest(p) == Len(u) > Len(p) /\ \A x \in (Len(p) + 1)..Len(u) : ~IsSpace(u[x])
        Http == <<"h", "t", "t", "p", ":", "/", "/">>
        Https == <<"h", "t", "t", "p", "s", ":", "/", "/">>
    IN \/ HasPrefix(Http) /\ Rest(Http)
       \/ HasPrefix(Https) /\ Rest(Https)

RowFields == {"userId", "name", "email", "profileImageUrl"}

isRowEmpty(row) ==
    \A f \in RowFields :
        \/ row[f] = Null
        \/ row[f] = Undefined
        \/ row[f] = Str(<<>>)

\* a message that numbers the rows from 1
RowMsg_NoHeader(index, reason) == "Row " \o ToString(index + 1) \o ": " \o reason

\* `Row ${index + 2}: ${reason}`
RowMsg(index, reason) == "Row " \o ToString(index + 2) \o ": " \o reason

\* a validator that looks at name before userId
validateUser_NameFirst(user, index) ==
    IF isRowEmpty(user)
    THEN [valid |-> FALSE, error |-> RowMsg(index, "Empty row")]
    ELSE IF ~Truthy(user.name) \/ TypeOf(user.name) # "string"
    THEN [valid |-> FALSE, error |-> RowMsg(index, "Missing or invalid 'name'")]
    ELSE IF \/ ~Truthy(user.userId)
            \/ (TypeOf(user.userId) # "string" /\ TypeOf(user.userId) # "number")
    THEN [valid |-> FALSE, error |-> RowMsg(index, "Missing or invalid 'userId'")]
    ELSE IF \/ ~Truthy(user.email)
            \/ TypeOf(user.email) # "string"
            \/ ~isValidEmail(user.email.s)
    THEN [valid |-> FALSE, error |-> RowMsg(index, "Invalid 'email'")]
    ELSE IF Truthy(user.profileImageUrl) /\ ~isValidUrl(ToChars(user.profileImageUrl))
    THEN [valid |-> FALSE, error |-> RowMsg(index, "Invalid 'profileImageUrl'")]
    ELSE [valid |-> TRUE, error |-> ""]

validateUser(user, index) ==
    IF isRowEmpty(user)
    THEN [valid |-> FALSE, error |-> RowMsg(index, "Empty row")]
    ELSE IF \/ ~Truthy(user.userId)
            \/ (TypeOf(user.userId) # "string" /\ TypeOf(user.userId) # "number")
    THEN [valid |-> FALSE, error |-> RowMsg(index, "Missing or invalid 'userId'")]
    ELSE IF ~Truthy(user.name) \/ TypeOf(user.name) # "string"
    THEN [valid |-> FALSE, error |-> RowMsg(index, "Missing or invalid 'name'")]
    ELSE IF \/ ~Truthy(user.email)
            \/ TypeOf(user.email) # "string"
            \/ ~isValidEmail(user.email.s)
    THEN [valid |-> FALSE, error |-> RowMsg(index, "Invalid 'email'")]
    ELSE IF Truthy(user.profileImageUrl) /\ ~isValidUrl(ToChars(user.profileImageUrl))
    THEN [valid |-> FALSE, error |-> RowMsg(index, "Invalid 'profileImageUrl'")]
    ELSE [valid |-> TRUE, error |-> ""]

\* one element of buildPutRequests' map
PutRequest(user) ==
    [userId |-> ToChars(user.userId),
     name |-> user.name.s,
     email |-> user.email.s,
     profileImage |-> IF user.profileImageUrl \in {Null, Undefined}
                      THEN Str(<<>>)
                      ELSE user.profileImageUrl]

buildPutRequests(users) == [i \in 1..Len(users) |-> PutRequest(users[i])]

\* F applied to the value of a: evaluates a once, before F
Then(a, F(_)) == CHOOSE r \in {F(v) : v \in {a}} : TRUE

\* a reducer that counts positions from 1
Reducer_OffByOne(acc, item, index) ==
    LET chunkIndex == (index + 1) \div BATCH_SIZE
        acc1 == IF chunkIndex + 1 > Len(acc) THEN Append(acc, <<>>) ELSE acc
    IN [acc1 EXCEPT ![chunkIndex + 1] = Append(@, item)]

\* a reducer that starts the chunk anew at every item
Reducer_Overwrite(acc, item, index) ==
    LET chunkIndex == index \div BATCH_SIZE
        acc1 == IF chunkIndex + 1 > Len(acc) THEN Append(acc, <<>>) ELSE acc
    IN [acc1 EXCEPT ![chunkIndex + 1] = <<item>>]

\* the reducer callback of putRequests.reduce; index is 0-based
Reducer(acc, item, index) ==
    LET chunkIndex == index \div BATCH_SIZE
        acc1 == IF chunkIndex + 1 > Len(acc) THEN Append(acc, <<>>) ELSE acc
    IN [acc1 EXCEPT ![chunkIndex + 1] = Append(@, item)]

\* Array.prototype.reduce over the 0-based positions lo..hi-1, left to right
\* (the range is halved to keep the evaluation shallow)
RECURSIVE Reduce(_, _, _, _)
Reduce(items, acc, lo, hi) ==
    IF lo >= hi THEN acc
    ELSE IF hi = lo + 1 THEN Reducer(acc, items[lo + 1], lo)
    ELSE LET mid == (lo + hi) \div 2
         IN Then(Reduce(items, acc, lo, mid), LAMBDA a : Reduce(items, a, mid, hi))

MakeBatches(items) == Reduce(items, <<>>, 0, Len(items))

----
(* The object key of the trigger record *)
ReplacePlus(k) == [i \in 1..Len(k) |-> IF k[i] = "+" THEN " " ELSE k[i]]

HexDigits == {"0", "1", "2", "3", "4", "5", "6", "7", "8", "9",
              "a", "b", "c", "d", "e", "f", "A", "B", "C", "D", "E", "F"}

\* the character of a %XY escape below 0x80; a lone byte from 0x80 on is no
\* UTF-8 sequence and makes decodeURIComponent throw (the keys of the model
\* carry no multi-byte escape)
IsAsciiEscape(x) == x \in {"0", "1", "2", "3", "4", "5", "6", "7"}
EscapeChar(x, y) ==
    IF x = "2" /\ y = "0" THEN " "
    ELSE IF x = "2" /\ y = "B" THEN "+"
    ELSE "\\x" \o x \o y

\* decodeURIComponent: ok = FALSE stands for the URIError it throws
RECURSIVE decodeURIComponent(_)
decodeURIComponent(k) ==
    IF k = <<>> THEN [ok |-> TRUE, out |-> <<>>]
    ELSE IF k[1] # "%"
    THEN LET r == decodeURIComponent(Tail(k))
         IN [ok |-> r.ok, out |-> IF r.ok THEN <<k[1]>> \o r.out ELSE <<>>]
    ELSE IF \/ Len(k) < 3
            \/ k[2] \notin HexDigits
            \/ k[3] \notin HexDigits
            \/ ~IsAsciiEscape(k[2])
    THEN [ok |-> FALSE, out |-> <<>>]
    ELSE LET r == decodeURIComponent(SubSeq(k, 4, Len(k)))
         IN [ok |-> r.ok,
             out |-> IF r.ok THEN <<EscapeChar(k[2], k[3])>> \o r.out ELSE <<>>]

----
(* Inputs: trigger events *)
BucketNames == {"", "b1"}                \* "" : bucket.name absent or empty
ObjectKeys ==
    { <<>>,                               \* object.key absent or empty
      <<"k">>,
      <<"k", "+", "k", "%", "2", "0", "k">>,
      <<"k", "%">> }                      \* malformed escape

S3Records == [name : BucketNames, key : ObjectKeys]

\* records after the first: one well-formed, one without bucket and key
ExtraRecords == {[name |-> "b2", key |-> <<"z">>], [name |-> "", key |-> <<>>]}

RecordSeqs ==
    {<<>>} \cup
    UNION {{<<first>> \o rest : first \in S3Records, rest \in [1..n -> ExtraRecords]} :
              n \in 0..(MaxRecords - 1)}

\* hasRecords = FALSE: the event has no Records property
Events ==
    {[hasRecords |-> FALSE, Records |-> <<>>]} \cup
    {[hasRecords |-> TRUE, Records |-> r] : r \in RecordSeqs}

(* Inputs: decoded sheets.  Row i of a sheet is of one of these kinds; its *)
(* userId is derived from i, so the valid rows of a sheet have distinct    *)
(* keys.                                                                   *)
UserIdStr(i) == Str(<<"u">> \o NatToChars(i))
NameStr == Str(<<"A", "n", "n">>)
GoodEmail == Str(<<"f", "o", "o", "@", "b", "a", "r", ".", "c", "o", "m">>)
BadEmail == Str(<<"f", "o", "o", "@", "b", "a", "r">>)
GoodUrl == Str(<<"h", "t", "t", "p", "s", ":", "/", "/", "x">>)
BadUrl == Str(<<"f", "t", "p", ":", "/", "/", "x", ".", "c", "o", "m">>)

Row(u, n, e, p) == [userId |-> u, name |-> n, email |-> e, profileImageUrl |-> p]

RowOf(kind, i) ==
    CASE kind = "ok" -> Row(UserIdStr(i), NameStr, GoodEmail, Undefined)
      [] kind = "okNum" -> Row(Num(i), NameStr, GoodEmail, GoodUrl)
      [] kind = "okEmptyUrl" -> Row(UserIdStr(i), NameStr, GoodEmail, Str(<<>>))
      [] kind = "empty" -> Row(Undefined, Str(<<>>), Null, Undefined)
      [] kind = "noId" -> Row(Undefined, NameStr, GoodEmail, Undefined)
      [] kind = "zeroId" -> Row(Num(0), NameStr, GoodEmail, Undefined)
      [] kind = "boolId" -> Row(Bool(TRUE), NameStr, GoodEmail, Undefined)
      [] kind = "numName" -> Row(UserIdStr(i), Num(5), GoodEmail, Undefined)
      [] kind = "badEmail" -> Row(UserIdStr(i), NameStr, BadEmail, Undefined)
      [] kind = "badUrl" -> Row(UserIdStr(i), NameStr, GoodEmail, BadUrl)
      [] OTHER -> Row(UserIdStr(i), NameStr, GoodEmail, Num(7))

\* a sheet repeats a pattern of kinds
Patterns ==
    { <<"ok">>,
      <<"okNum", "ok", "okEmptyUrl">>,
      <<"badEmail">>,
      <<"empty", "noId", "zeroId", "boolId", "numName", "badUrl", "numUrl",
        "badEmail">>,
      <<"ok", "badEmail">>,
      <<"badUrl", "okNum", "ok", "ok", "empty">> }

Sheet(n, pat) == [i \in 1..n |-> RowOf(pat[((i - 1) % Len(pat)) + 1], i)]

\* row counts around the batch boundaries
RowCounts ==
    (0..3) \cup ((BATCH_SIZE - 1)..(BATCH_SIZE + 1)) \cup ((2 * BATCH_SIZE - 1)..MaxRows)

Sheets == {Sheet(n, pat) : n \in RowCounts, pat \in Patterns}

\* a second sheet, which the handler never reads
OtherSheet == <<Row(Str(<<"o", "t", "h", "e", "r">>), NameStr, GoodEmail, Undefined)>>

Workbooks ==
    {<<>>} \cup {<<sh>> : sh \in Sheets}
           \cup {<<sh, OtherSheet>> : sh \in {x \in Sheets : Len(x) <= 1}}

\* what the bucket may hold under the key: a workbook, or bytes XLSX.read
\* cannot decode
Buffers ==
    {[bytes |-> "garbage", content |-> <<>>]} \cup
    {[bytes |-> "xlsx", content |-> wb] : wb \in Workbooks}

----
(* Console output *)
LogEntry(level, msg, args) == [level |-> level, msg |-> msg, args |-> args]

\* validateUser is not run on its own
NoValidation ==
    /\ vRow = Row(Undefined, Undefined, Undefined, Undefined)
    /\ vIndex = 0
    /\ vResult = [done |-> FALSE, valid |-> FALSE, error |-> ""]
    /\ vItem = <<>>

\* no further invocation shares the table
NoRuns ==
    /\ runs = <<>>
    /\ applied = <<>>

Init ==
    /\ variant \in {"ts", "js"}
    /\ event \in Events
    /\ pc = "Start"
    /\ returned = "none"
    /\ bucket = ""
    /\ key = <<>>
    /\ fetchCalls = <<>>
    /\ buffer = [bytes |-> "none", content |-> <<>>]
    /\ workbook = <<>>
    /\ jsonData = <<>>
    /\ validUsers = <<>>
    /\ errors = <<>>
    /\ putRequests = <<>>
    /\ batches = <<>>
    /\ bi = 1
    /\ awaiting = FALSE
    /\ writeCalls = <<>>
    /\ table = {}
    /\ logs = <<>>
    /\ pItems = <<>>
    /\ pAcc = <<>>
    /\ pIndex = 0
    /\ NoValidation
    /\ NoRuns

Idle == UNCHANGED hvars

\* return; out of the try block
Return ==
    /\ pc' = "Done"
    /\ returned' = "normal"

\* console.error(...); return;
LogAndReturn(entry) ==
    /\ logs' = Append(logs, entry)
    /\ Return

\* a catch block that logs and rethrows
Catch_Rethrow(err) ==
    /\ logs' = Append(logs, LogEntry("error", "Lambda failed:", <<err>>))
    /\ pc' = "Done"
    /\ returned' = "threw"

\* a catch block that logs and starts the invocation again
Catch_Restart(err) ==
    /\ logs' = Append(logs, LogEntry("error", "Lambda failed:", <<err>>))
    /\ pc' = "Start"
    /\ returned' = returned

\* the catch block of handler: log the error, fall off the end
Catch(err) ==
    /\ logs' = Append(logs, LogEntry("error", "Lambda failed:", <<err>>))
    /\ pc' = "Done"
    /\ returned' = "normal"

\* the last call of a call log gets its outcome
Settle(calls, status) == [calls EXCEPT ![Len(calls)].status = status]

----
(* handler, lines 105-111: the trigger record.  handler.ts reads           *)
(* event.Records[0], which throws a TypeError inside the try block when    *)
(* the event has no Records property; part_000 (line 79) reads             *)
(* event.Records?.[0], which gives undefined instead.                      *)
\* a handler that reads the last record of the event
RecordAt_Last(ev) == ev.Records[Len(ev.Records)]

RecordAt(ev) == ev.Records[1]

\* a guard that forgets the object key
InvalidRecord_NoKeyCheck(ev) ==
    \/ Len(ev.Records) = 0
    \/ RecordAt(ev).name = ""

\* !record?.s3?.bucket?.name || !record?.s3?.object?.key
InvalidRecord(ev) ==
    \/ Len(ev.Records) = 0
    \/ RecordAt(ev).name = ""
    \/ RecordAt(ev).key = <<>>

ValidateEvent ==
    /\ pc = "Start"
    /\ IF variant = "ts" /\ ~event.hasRecords
       THEN \* event.Records[0] on undefined
            /\ Catch("TypeError")
            /\ UNCHANGED <<bucket, key>>
       ELSE IF InvalidRecord(event)
       THEN /\ LogAndReturn(LogEntry("error", "Invalid event format", <<>>))
            /\ UNCHANGED <<bucket, key>>
       ELSE LET d == decodeURIComponent(ReplacePlus(RecordAt(event).key))
            IN IF ~d.ok
               THEN /\ Catch("URIError")
                    /\ UNCHANGED <<bucket, key>>
               ELSE /\ bucket' = RecordAt(event).name
                    /\ key' = d.out
                    /\ pc' = "EventValidated"
                    /\ UNCHANGED <<logs, returned>>
    /\ UNCHANGED <<variant, event, fetchCalls, buffer, workbook, jsonData,
                   validUsers, errors, putRequests, batches, bi, awaiting,
                   writeCalls, table>>
    /\ UNCHANGED <<pvars, vvars, mvars>>

(* handler, lines 113-116: fetch the object *)
SendGetObject ==
    /\ pc = "EventValidated"
    /\ fetchCalls' = Append(fetchCalls,
                            [Bucket |-> bucket, Key |-> key, status |-> "inflight"])
    /\ pc' = "Fetching"
    /\ UNCHANGED <<variant, event, returned, bucket, key, buffer, workbook,
                   jsonData, validUsers, errors, putRequests, batches, bi,
                   awaiting, writeCalls, table, logs>>
    /\ UNCHANGED <<pvars, vvars, mvars>>

GetObjectOk ==
    /\ pc = "Fetching"
    /\ fetchCalls' = Settle(fetchCalls, "ok")
    /\ pc' = "Streaming"
    /\ UNCHANGED <<variant, event, returned, bucket, key, buffer, workbook,
                   jsonData, validUsers, errors, putRequests, batches, bi,
                   awaiting, writeCalls, table, logs>>
    /\ UNCHANGED <<pvars, vvars, mvars>>

GetObjectThrows ==
    /\ pc = "Fetching"
    /\ fetchCalls' = Settle(fetchCalls, "throw")
    /\ Catch("S3Error")
    /\ UNCHANGED <<variant, event, bucket, key, buffer, workbook, jsonData,
                   validUsers, errors, putRequests, batches, bi, awaiting,
                   writeCalls, table>>
    /\ UNCHANGED <<pvars, vvars, mvars>>

StreamToBufferOk ==
    /\ pc = "Streaming"
    /\ \E b \in Buffers : buffer' = b
    /\ pc' = "ObjectFetched"
    /\ UNCHANGED <<variant, event, returned, bucket, key, fetchCalls, workbook,
                   jsonData, validUsers, errors, putRequests, batches, bi,
                   awaiting, writeCalls, table, logs>>
    /\ UNCHANGED <<pvars, vvars, mvars>>

StreamToBufferThrows ==
    /\ pc = "Streaming"
    /\ Catch("StreamError")
    /\ UNCHANGED <<variant, event, bucket, key, fetchCalls, buffer, workbook,
                   jsonData, validUsers, errors, putRequests, batches, bi,
                   awaiting, writeCalls, table>>
    /\ UNCHANGED <<pvars, vvars, mvars>>

(* handler, lines 118-124: decode the workbook *)
ReadWorkbook ==
    /\ pc = "ObjectFetched"
    /\ IF buffer.bytes # "xlsx"
       THEN /\ Catch("XLSXError")
            /\ UNCHANGED workbook
       ELSE /\ workbook' = buffer.content
            /\ IF Len(workbook') = 0
               THEN LogAndReturn(LogEntry("error", "No sheets found in Excel file.", <<>>))
               ELSE /\ pc' = "Decoded"
                    /\ UNCHANGED <<logs, returned>>
    /\ UNCHANGED <<variant, event, bucket, key, fetchCalls, buffer, jsonData,
                   validUsers, errors, putRequests, batches, bi, awaiting,
                   writeCalls, table>>
    /\ UNCHANGED <<pvars, vvars, mvars>>

(* handler, lines 126-135: the rows of the first sheet *)
SheetToJson ==
    /\ pc = "Decoded"
    /\ jsonData' = workbook[1]
    /\ IF Len(jsonData') = 0
       THEN LogAndReturn(LogEntry("error", "Excel sheet is empty.", <<>>))
       ELSE /\ pc' = "RowsExtracted"
            /\ UNCHANGED <<logs, returned>>
    /\ UNCHANGED <<variant, event, bucket, key, fetchCalls, buffer, workbook,
                   validUsers, errors, putRequests, batches, bi, awaiting,
                   writeCalls, table>>
    /\ UNCHANGED <<pvars, vvars, mvars>>

(* handler, lines 137-147: validate every row *)
\* a filter callback that keeps every row
FilterStep_KeepAll(acc, user, i) ==
    LET result == validateUser(user, i)
    IN [validUsers |-> Append(acc.validUsers, user),
        errors |-> IF ~result.valid THEN Append(acc.errors, result.error)
                   ELSE acc.errors]

\* a callback that puts the newest diagnostic in front
FilterStep_ErrorsFirst(acc, user, i) ==
    LET result == validateUser(user, i)
    IN [validUsers |-> IF result.valid THEN Append(acc.validUsers, user)
                       ELSE acc.validUsers,
        errors |-> IF ~result.valid THEN <<result.error>> \o acc.errors
                   ELSE acc.errors]

\* the callback of jsonData.filter; i is the 0-based position of the row
FilterStep(acc, user, i) ==
    LET result == validateUser(user, i)
    IN [validUsers |-> IF result.valid THEN Append(acc.validUsers, user)
                       ELSE acc.validUsers,
        errors |-> IF ~result.valid THEN Append(acc.errors, result.error)
                   ELSE acc.errors]

\* Array.prototype.filter over the 0-based positions lo..hi-1, left to right
RECURSIVE Filter(_, _, _, _)
Filter(rows, acc, lo, hi) ==
    IF lo >= hi THEN acc
    ELSE IF hi = lo + 1 THEN FilterStep(acc, rows[lo + 1], lo)
    ELSE LET mid == (lo + hi) \div 2
         IN Then(Filter(rows, acc, lo, mid), LAMBDA a : Filter(rows, a, mid, hi))

\* a handler without the early return on an empty validUsers
NoValidUsers_Never(users) == FALSE

\* !validUsers.length
NoValidUsers(users) == Len(users) = 0

\* a warning that carries the collected diagnostics
NoValidLog_WithErrors(errs) == LogEntry("warn", "No valid records found.", errs)

NoValidLog(errs) == LogEntry("warn", "No valid records found.", <<>>)

ValidateRows ==
    /\ pc = "RowsExtracted"
    /\ \E r \in {Filter(jsonData, [validUsers |-> <<>>, errors |-> <<>>], 0, Len(jsonData))} :
          /\ validUsers' = r.validUsers
          /\ errors' = r.errors
          /\ IF NoValidUsers(r.validUsers)
             THEN LogAndReturn(NoValidLog(r.errors))
             ELSE /\ pc' = "Validated"
                  /\ UNCHANGED <<logs, returned>>
    /\ UNCHANGED <<variant, event, bucket, key, fetchCalls, buffer, workbook,
                   jsonData, putRequests, batches, bi, awaiting, writeCalls,
                   table>>
    /\ UNCHANGED <<pvars, vvars, mvars>>

(* handler, line 149, and writeToDynamoDBInBatches, lines 87-92 *)
BuildAndPartition ==
    /\ pc = "Validated"
    /\ putRequests' = buildPutRequests(validUsers)
    /\ batches' = MakeBatches(putRequests')
    /\ bi' = 1
    /\ pc' = "Writing"
    /\ UNCHANGED <<variant, event, returned, bucket, key, fetchCalls, buffer,
                   workbook, jsonData, validUsers, errors, awaiting, writeCalls,
                   table, logs>>
    /\ UNCHANGED <<pvars, vvars, mvars>>

\* a loop that sends the next batch without awaiting the previous one
SendBatch_NoAwait ==
    /\ pc = "Writing"
    /\ bi <= Len(batches)
    /\ writeCalls' = Append(writeCalls,
                            [TableName |-> TABLE_NAME, batch |-> batches[bi],
                             status |-> "inflight"])
    /\ bi' = bi + 1
    /\ UNCHANGED <<variant, event, pc, returned, bucket, key, fetchCalls, buffer,
                   workbook, jsonData, validUsers, errors, putRequests, batches,
                   awaiting, table, logs>>
    /\ UNCHANGED <<pvars, vvars, mvars>>

(* writeToDynamoDBInBatches, lines 94-100: one send per batch, awaited *)
SendBatch ==
    /\ pc = "Writing"
    /\ ~awaiting
    /\ bi <= Len(batches)
    /\ writeCalls' = Append(writeCalls,
                            [TableName |-> TABLE_NAME, batch |-> batches[bi],
                             status |-> "inflight"])
    /\ awaiting' = TRUE
    /\ UNCHANGED <<variant, event, pc, returned, bucket, key, fetchCalls, buffer,
                   workbook, jsonData, validUsers, errors, putRequests, batches,
                   bi, table, logs>>
    /\ UNCHANGED <<pvars, vvars, mvars>>

\* a store that keeps the item a key already has
Put_KeepFirst(tbl, item) ==
    IF \E x \in tbl : x.userId = item.userId THEN tbl ELSE tbl \cup {item}

\* the store puts the items of a batch, each replacing the item of its key
Put(tbl, item) == {x \in tbl : x.userId # item.userId} \cup {item}

RECURSIVE PutRange(_, _, _, _)
PutRange(tbl, batch, lo, hi) ==
    IF lo > hi THEN tbl
    ELSE IF lo = hi THEN Put(tbl, batch[lo])
    ELSE LET mid == (lo + hi) \div 2
         IN Then(PutRange(tbl, batch, lo, mid),
                 LAMBDA t : PutRange(t, batch, mid + 1, hi))

PutAll(tbl, batch) == PutRange(tbl, batch, 1, Len(batch))

BatchWriteOk ==
    /\ pc = "Writing"
    /\ awaiting
    /\ writeCalls' = Settle(writeCalls, "ok")
    /\ table' = PutAll(table, writeCalls[Len(writeCalls)].batch)
    /\ awaiting' = FALSE
    /\ bi' = bi + 1
    /\ UNCHANGED <<variant, event, pc, returned, bucket, key, fetchCalls, buffer,
                   workbook, jsonData, validUsers, errors, putRequests, batches,
                   logs>>
    /\ UNCHANGED <<pvars, vvars, mvars>>

\* a loop that swallows the rejection and goes on with the next batch
BatchWriteThrows_Continue ==
    /\ pc = "Writing"
    /\ awaiting
    /\ writeCalls' = Settle(writeCalls, "throw")
    /\ awaiting' = FALSE
    /\ bi' = bi + 1
    /\ UNCHANGED <<variant, event, pc, returned, bucket, key, fetchCalls, buffer,
                   workbook, jsonData, validUsers, errors, putRequests, batches,
                   table, logs>>
    /\ UNCHANGED <<pvars, vvars, mvars>>

\* the rejected send leaves the loop and the try block
BatchWriteThrows ==
    /\ pc = "Writing"
    /\ awaiting
    /\ writeCalls' = Settle(writeCalls, "throw")
    /\ awaiting' = FALSE
    /\ Catch("DynamoDBError")
    /\ UNCHANGED <<variant, event, bucket, key, fetchCalls, buffer, workbook,
                   jsonData, validUsers, errors, putRequests, batches, bi, table>>
    /\ UNCHANGED <<pvars, vvars, mvars>>

WritesComplete ==
    /\ pc = "Writing"
    /\ ~awaiting
    /\ bi > Len(batches)
    /\ pc' = "BatchesWritten"
    /\ UNCHANGED <<variant, event, returned, bucket, key, fetchCalls, buffer,
                   workbook, jsonData, validUsers, errors, putRequests, batches,
                   bi, awaiting, writeCalls, table, logs>>
    /\ UNCHANGED <<pvars, vvars, mvars>>

(* handler, lines 152-153 (part_000: 121-124): the summary *)
UploadedLog(n) ==
    LogEntry("log", "Uploaded " \o ToString(n) \o " records to DynamoDB.", <<>>)

SkippedLog(v, errs) ==
    IF v = "ts"
    THEN LogEntry("warn", "skipped " \o ToString(Len(errs)) \o " rows:", errs)
    ELSE LogEntry("log", "skipped " \o ToString(Len(errs))
                            \o " rows due to validation errors.", <<>>)

LogSummary ==
    /\ pc = "BatchesWritten"
    /\ logs' = logs \o <<UploadedLog(Len(putRequests))>>
                    \o (IF Len(errors) # 0 THEN <<SkippedLog(variant, errors)>>
                        ELSE <<>>)
    /\ Return
    /\ UNCHANGED <<variant, event, bucket, key, fetchCalls, buffer, workbook,
                   jsonData, validUsers, errors, putRequests, batches, bi,
                   awaiting, writeCalls, table>>
    /\ UNCHANGED <<pvars, vvars, mvars>>

Next ==
    \/ ValidateEvent
    \/ SendGetObject
    \/ GetObjectOk
    \/ GetObjectThrows
    \/ StreamToBufferOk
    \/ StreamToBufferThrows
    \/ ReadWorkbook
    \/ SheetToJson
    \/ ValidateRows
    \/ BuildAndPartition
    \/ SendBatch
    \/ BatchWriteOk
    \/ BatchWriteThrows
    \/ WritesComplete
    \/ LogSummary

Spec == Init /\ [][Next]_vars

\* the runtime keeps running the handler, and every pending call of a
\* collaborator returns or throws
SpecLive == Init /\ [][Next]_vars /\ WF_vars(Next)

----
(* putRequests.reduce of writeToDynamoDBInBatches on its own: the         *)
(* accumulator after each call of the reducer                             *)
DuplicateItem == PutRequest(RowOf("ok", 1))

ItemSeqs ==
    {buildPutRequests(Sheet(n, pat)) :
        n \in 0..MaxItems, pat \in {<<"ok">>, <<"okNum", "ok", "okEmptyUrl">>}}
    \cup {[i \in 1..n |-> DuplicateItem] : n \in 0..MaxItems}

InitPart ==
    /\ variant = "ts"
    /\ event = [hasRecords |-> TRUE, Records |-> <<>>]
    /\ pc = "Start"
    /\ returned = "none"
    /\ bucket = ""
    /\ key = <<>>
    /\ fetchCalls = <<>>
    /\ buffer = [bytes |-> "none", content |-> <<>>]
    /\ workbook = <<>>
    /\ jsonData = <<>>
    /\ validUsers = <<>>
    /\ errors = <<>>
    /\ putRequests = <<>>
    /\ batches = <<>>
    /\ bi = 1
    /\ awaiting = FALSE
    /\ writeCalls = <<>>
    /\ table = {}
    /\ logs = <<>>
    /\ pItems \in ItemSeqs
    /\ pAcc = <<>>
    /\ pIndex = 0
    /\ NoValidation
    /\ NoRuns

ReduceStep ==
    /\ pIndex < Len(pItems)
    /\ pAcc' = Reducer(pAcc, pItems[pIndex + 1], pIndex)
    /\ pIndex' = pIndex + 1
    /\ UNCHANGED pItems
    /\ Idle
    /\ UNCHANGED <<vvars, mvars>>

NextPart == ReduceStep

SpecPart == InitPart /\ [][NextPart]_vars

----
(* validateUser and buildPutRequests on one row, on their own *)
UserIdValues ==
    { Undefined, Null, Str(<<>>), Str(<<"u", "1">>), Str(<<" ">>),
      Num(0), Num(7), Num(120), Bool(TRUE) }

NameValues == { Undefined, Null, Str(<<>>), NameStr, Num(5), Num(0) }

EmailValues ==
    { Undefined, Null, Str(<<>>), Num(5),
      Str(<<"f", "o", "o", "@", "b", "a", "r">>),
      Str(<<"f", "o", "o", "@", "b", "a", "r", ".", "c", "o", "m">>),
      Str(<<"a", "@", "b", ".", "c", "@", "d">>),
      Str(<<"a", " ", "b", "@", "c", ".", "d">>),
      Str(<<"@", "b", ".", "c">>),
      Str(<<"a", "@", ".", "c">>),
      Str(<<"a", "@", "b", ".">>),
      Str(<<"a", "@", "b", ".", "c", ".", "d">>),
      Str(<<"a", "b", ".", "c">>),
      Str(<<"a", "@", "@", "b", ".", "c">>),
      Str(<<"a", "@", "b", " ", ".", "c">>) }

UrlValues ==
    { Undefined, Null, Str(<<>>), Num(0), Num(7), Bool(FALSE), Bool(TRUE),
      Str(<<"h", "t", "t", "p", ":", "/", "/", "x">>),
      Str(<<"h", "t", "t", "p", "s", ":", "/", "/", "x">>),
      Str(<<"f", "t", "p", ":", "/", "/", "x", ".", "c", "o", "m">>),
      Str(<<"h", "t", "t", "p", ":", "/", "/">>),
      Str(<<"h", "t", "t", "p", "s", ":", "/", "/", "x", " ", "y">>),
      Str(<<"x", "h", "t", "t", "p", ":", "/", "/", "x">>),
      Str(<<"h", "t", "t", "p", ":", "/", "x">>),
      Str(<<"h", "t", "t", "p", "s", "s", ":", "/", "/", "x">>) }

Rows == [userId : UserIdValues, name : NameValues, email : EmailValues,
         profileImageUrl : UrlValues]

InitValidate ==
    /\ variant = "ts"
    /\ event = [hasRecords |-> TRUE, Records |-> <<>>]
    /\ pc = "Start"
    /\ returned = "none"
    /\ bucket = ""
    /\ key = <<>>
    /\ fetchCalls = <<>>
    /\ buffer = [bytes |-> "none", content |-> <<>>]
    /\ workbook = <<>>
    /\ jsonData = <<>>
    /\ validUsers = <<>>
    /\ errors = <<>>
    /\ putRequests = <<>>
    /\ batches = <<>>
    /\ bi = 1
    /\ awaiting = FALSE
    /\ writeCalls = <<>>
    /\ table = {}
    /\ logs = <<>>
    /\ pItems = <<>>
    /\ pAcc = <<>>
    /\ pIndex = 0
    /\ vRow \in Rows
    /\ vIndex \in 0..MaxIndex
    /\ vResult = [done |-> FALSE, valid |-> FALSE, error |-> ""]
    /\ vItem = <<>>
    /\ NoRuns

\* const result = validateUser(user, i)
ValidateStep ==
    /\ ~vResult.done
    /\ LET result == validateUser(vRow, vIndex)
       IN vResult' = [done |-> TRUE, valid |-> result.valid, error |-> result.error]
    /\ UNCHANGED <<vRow, vIndex, vItem>>
    /\ Idle
    /\ UNCHANGED <<pvars, mvars>>

\* buildPutRequests([user]) for a row that passed
BuildStep ==
    /\ vResult.done
    /\ vResult.valid
    /\ vItem = <<>>
    /\ vItem' = buildPutRequests(<<vRow>>)
    /\ UNCHANGED <<vRow, vIndex, vResult>>
    /\ Idle
    /\ UNCHANGED <<pvars, mvars>>

NextValidate == ValidateStep \/ BuildStep

SpecValidate == InitValidate /\ [][NextValidate]_vars

----
(* Two invocations of the handler on one table: the write phase of each,  *)
(* writeToDynamoDBInBatches, lines 86-101                                  *)
Range(f) == {f[i] : i \in DOMAIN f}

Invocations == {1, 2}

OtherNameStr == Str(<<"B", "o", "b">>)

\* the write items of n valid rows u1..un that all carry the same name
ItemsOf(n, name) ==
    buildPutRequests([i \in 1..n |-> Row(UserIdStr(i), name, GoodEmail, Undefined)])

\* inputs of one, two and three batches
InputSizes == {1, BATCH_SIZE + 1, 2 * BATCH_SIZE + 1}

NewRun(items) ==
    [items |-> items, batches |-> <<>>, bi |-> 1, awaiting |-> FALSE,
     calls |-> <<>>, pc |-> "Idle", failed |-> FALSE, after |-> {}]

hvarsButTable ==
    <<variant, event, pc, returned, bucket, key, fetchCalls, buffer, workbook,
      jsonData, validUsers, errors, putRequests, batches, bi, awaiting,
      writeCalls, logs>>

InitMulti ==
    /\ variant = "ts"
    /\ event = [hasRecords |-> TRUE, Records |-> <<>>]
    /\ pc = "Start"
    /\ returned = "none"
    /\ bucket = ""
    /\ key = <<>>
    /\ fetchCalls = <<>>
    /\ buffer = [bytes |-> "none", content |-> <<>>]
    /\ workbook = <<>>
    /\ jsonData = <<>>
    /\ validUsers = <<>>
    /\ errors = <<>>
    /\ putRequests = <<>>
    /\ batches = <<>>
    /\ bi = 1
    /\ awaiting = FALSE
    /\ writeCalls = <<>>
    /\ table = {}
    /\ logs = <<>>
    /\ pItems = <<>>
    /\ pAcc = <<>>
    /\ pIndex = 0
    /\ NoValidation
    /\ \E n1, n2 \in InputSizes : \E name2 \in {NameStr, OtherNameStr} :
          runs = [r \in Invocations |->
                     IF r = 1 THEN NewRun(ItemsOf(n1, NameStr))
                     ELSE NewRun(ItemsOf(n2, name2))]
    /\ applied = <<>>

\* a loop that leaves out the leading batches whose items the table holds
FirstBatch_Resume(tbl, bs) ==
    IF \A b \in DOMAIN bs : Range(bs[b]) \subseteq tbl
    THEN Len(bs) + 1
    ELSE CHOOSE b \in DOMAIN bs :
            /\ ~(Range(bs[b]) \subseteq tbl)
            /\ \A c \in 1..(b - 1) : Range(bs[c]) \subseteq tbl

\* for (const batch of batches): the loop starts at the first batch
FirstBatch(tbl, bs) == 1

\* the invocation reaches writeToDynamoDBInBatches with its valid items
StartWrites(r) ==
    /\ runs[r].pc = "Idle"
    /\ \E bs \in {MakeBatches(runs[r].items)} :
          runs' = [runs EXCEPT ![r].pc = "Writing",
                               ![r].batches = bs,
                               ![r].bi = FirstBatch(table, bs),
                               ![r].after = {q \in Invocations : runs[q].pc = "Done"}]
    /\ UNCHANGED <<table, applied>>
    /\ UNCHANGED <<hvarsButTable, pvars, vvars>>

\* await docClient.send(new BatchWriteCommand(...)): the call goes out
SendBatchOf(r) ==
    /\ runs[r].pc = "Writing"
    /\ ~runs[r].awaiting
    /\ runs[r].bi <= Len(runs[r].batches)
    /\ runs' = [runs EXCEPT ![r].calls =
                                Append(@, [TableName |-> TABLE_NAME,
                                           batch |-> runs[r].batches[runs[r].bi],
                                           status |-> "inflight"]),
                            ![r].awaiting = TRUE]
    /\ UNCHANGED <<table, applied>>
    /\ UNCHANGED <<hvarsButTable, pvars, vvars>>

\* the store applies the batch and the call returns
BatchWriteOkOf(r) ==
    /\ runs[r].pc = "Writing"
    /\ runs[r].awaiting
    /\ \E t \in {PutAll(table, runs[r].calls[Len(runs[r].calls)].batch)} :
          table' = t
    /\ applied' = Append(applied, <<r, runs[r].bi>>)
    /\ runs' = [runs EXCEPT ![r].calls = Settle(@, "ok"),
                            ![r].awaiting = FALSE,
                            ![r].bi = @ + 1]
    /\ UNCHANGED <<hvarsButTable, pvars, vvars>>

\* the call is rejected: the catch block of handler ends the invocation
BatchWriteThrowsOf(r) ==
    /\ runs[r].pc = "Writing"
    /\ runs[r].awaiting
    /\ runs' = [runs EXCEPT ![r].calls = Settle(@, "throw"),
                            ![r].awaiting = FALSE,
                            ![r].failed = TRUE,
                            ![r].pc = "Done"]
    /\ UNCHANGED <<table, applied>>
    /\ UNCHANGED <<hvarsButTable, pvars, vvars>>

\* the loop is over: summary and return
WritesCompleteOf(r) ==
    /\ runs[r].pc = "Writing"
    /\ ~runs[r].awaiting
    /\ runs[r].bi > Len(runs[r].batches)
    /\ runs' = [runs EXCEPT ![r].pc = "Done"]
    /\ UNCHANGED <<table, applied>>
    /\ UNCHANGED <<hvarsButTable, pvars, vvars>>

NextMulti ==
    \E r \in Invocations :
        \/ StartWrites(r)
        \/ SendBatchOf(r)
        \/ BatchWriteOkOf(r)
        \/ BatchWriteThrowsOf(r)
        \/ WritesCompleteOf(r)

SpecMulti == InitMulti /\ [][NextMulti]_vars

(* The invocations of handler and the runs of the reduce, side by side *)
InitAll == Init \/ InitPart

NextAll == Next \/ NextPart

SpecAll == InitAll /\ [][NextAll]_vars

----
(* What an invocation shows to its collaborators and on the console *)

RECURSIVE ConcatTo(_, _)
ConcatTo(bs, n) == IF n = 0 THEN <<>> ELSE ConcatTo(bs, n - 1) \o bs[n]
Concat(bs) == ConcatTo(bs, Len(bs))

CountMsg(m) == Cardinality({i \in DOMAIN logs : logs[i].msg = m})

NoRecords == ~event.hasRecords \/ Len(event.Records) = 0
FirstRecordOk ==
    /\ event.hasRecords
    /\ Len(event.Records) >= 1
    /\ event.Records[1].name # ""
    /\ event.Records[1].key # <<>>

FetchThrew == \E i \in DOMAIN fetchCalls : fetchCalls[i].status = "throw"
StreamThrew ==
    /\ pc = "Done"
    /\ fetchCalls # <<>>
    /\ fetchCalls[1].status = "ok"
    /\ buffer.bytes = "none"
DecodeThrew == pc = "Done" /\ buffer.bytes = "garbage"
WriteThrew == \E i \in DOMAIN writeCalls : writeCalls[i].status = "throw"
CollaboratorThrew == FetchThrew \/ StreamThrew \/ DecodeThrew \/ WriteThrew

CallBatches == [i \in DOMAIN writeCalls |-> writeCalls[i].batch]
AllWritesSucceeded ==
    /\ pc \in {"BatchesWritten", "Done"}
    /\ writeCalls # <<>>
    /\ \A i \in DOMAIN writeCalls : writeCalls[i].status = "ok"

\* the rows of the sheet as validateUser judges them, by 1-based position
Positions == [i \in 1..Len(jsonData) |-> i]
ValidPositions ==
    SelectSeq(Positions, LAMBDA i : validateUser(jsonData[i], i - 1).valid)
InvalidPositions ==
    SelectSeq(Positions, LAMBDA i : ~validateUser(jsonData[i], i - 1).valid)
ExpectedItems ==
    Then(ValidPositions, LAMBDA vp : [k \in DOMAIN vp |-> PutRequest(jsonData[vp[k]])])
ExpectedErrors ==
    Then(InvalidPositions,
         LAMBDA ip : [k \in DOMAIN ip |-> validateUser(jsonData[ip[k]], ip[k] - 1).error])
AllRowsInvalid == Len(jsonData) >= 1 /\ Len(ValidPositions) = 0

----
\* C1 (as stated): whenever the fetch, the decoding or a batch write throws,
\* or the event has no records at all, the handler returns normally and the
\* failure is logged once by the top-level catch.
C1_Original ==
    (pc = "Done" /\ (CollaboratorThrew \/ NoRecords)) =>
        (returned = "normal" /\ CountMsg("Lambda failed:") = 1)

\* C1 (amended): the handler never lets an exception out and ends by a normal
\* return; a throwing collaborator is logged exactly once, by the top-level
\* catch, as the last log entry; an event without records is logged exactly
\* once as well, by the top-level catch only when handler.ts gets an event
\* without a Records property and by the "Invalid event format" guard
\* otherwise.
C1_ReturnsNormally ==
    /\ returned # "threw"
    /\ (pc = "Done") = (returned = "normal")
    /\ CountMsg("Lambda failed:") <= 1
    /\ pc = "Done" =>
         /\ CollaboratorThrew =>
               /\ CountMsg("Lambda failed:") = 1
               /\ logs[Len(logs)].msg = "Lambda failed:"
         /\ NoRecords =>
               /\ Len(logs) = 1
               /\ logs[1].level = "error"
               /\ logs[1].msg = IF variant = "ts" /\ ~event.hasRecords
                                THEN "Lambda failed:"
                                ELSE "Invalid event format"

C1_Witness ==
    /\ pc = "Done"
    /\ WriteThrew
    /\ Len(writeCalls) = 2
    /\ returned = "normal"
    /\ CountMsg("Lambda failed:") = 1

\* C2: once the write of batch k has thrown, the write calls of the invocation
\* are exactly batches 1..k in partition order, each once, the first k-1 of
\* them succeeded and their items are what the table holds (nothing rolled
\* back, nothing written after k), and the invocation is over.
C2_FailedBatchEndsWrites ==
    \A k \in DOMAIN writeCalls :
        writeCalls[k].status = "throw" =>
            /\ Len(writeCalls) = k
            /\ \A j \in 1..k : writeCalls[j].batch = batches[j]
            /\ \A j \in 1..(k - 1) : writeCalls[j].status = "ok"
            /\ table = UNION {Range(batches[j]) : j \in 1..(k - 1)}
            /\ pc = "Done"

C2_Witness ==
    /\ Len(batches) = 3
    /\ Len(writeCalls) = 2
    /\ writeCalls[2].status = "throw"
    /\ Cardinality(table) = BATCH_SIZE

\* C3: every item of every batch write is the put request of a row that
\* validateUser accepts; and when all batch writes succeeded, the items
\* written are exactly the put requests of the accepted rows, each once, in
\* row order, whatever the other rows of the sheet are.
C3_OnlyValidRowsWritten ==
    Then(ExpectedItems, LAMBDA ex :
        /\ \A c \in DOMAIN writeCalls : Range(writeCalls[c].batch) \subseteq Range(ex)
        /\ AllWritesSucceeded =>
              /\ Concat(CallBatches) = ex
              /\ table = Range(ex))

C3_Witness ==
    /\ pc = "Done"
    /\ AllWritesSucceeded
    /\ Len(writeCalls) = 2
    /\ Len(errors) > BATCH_SIZE

\* C4: when every row of the sheet fails validation, no batch write call is
\* issued, the invocation goes from validation straight to its end, and it
\* ends by a normal return with the no-valid-records warning logged, although
\* errors holds one diagnostic per row.
C4_NoValidRowsNoWrite ==
    AllRowsInvalid =>
        /\ writeCalls = <<>>
        /\ table = {}
        /\ pc \in {"RowsExtracted", "Done"}
        /\ pc = "Done" =>
              /\ returned = "normal"
              /\ \E i \in DOMAIN logs :
                    logs[i].level = "warn" /\ logs[i].msg = "No valid records found."
              /\ Len(errors) = Len(jsonData)

C4_Witness ==
    /\ pc = "Done"
    /\ AllRowsInvalid
    /\ Len(errors) = MaxRows
    /\ writeCalls = <<>>

\* C5: a batch write call is issued only after the first record carried a
\* bucket name and a key, the one fetch succeeded, the bytes decoded to a
\* workbook with at least one sheet and the first sheet gave at least one
\* row; a trigger without bucket name or key causes no fetch and no write; a
\* workbook without sheets, or a first sheet without rows, ends the invocation
\* with its error log and without a write.
C5_WriteOnlyAfterGuards ==
    /\ writeCalls # <<>> =>
          /\ FirstRecordOk
          /\ Len(fetchCalls) = 1
          /\ fetchCalls[1].status = "ok"
          /\ buffer.bytes = "xlsx"
          /\ Len(buffer.content) >= 1
          /\ Len(buffer.content[1]) >= 1
          /\ jsonData = buffer.content[1]
    /\ ~FirstRecordOk => (fetchCalls = <<>> /\ writeCalls = <<>>)
    /\ (pc = "Done" /\ buffer.bytes = "xlsx" /\ Len(buffer.content) = 0) =>
          /\ logs = <<LogEntry("error", "No sheets found in Excel file.", <<>>)>>
          /\ writeCalls = <<>>
    /\ (pc = "Done" /\ buffer.bytes = "xlsx" /\ Len(buffer.content) >= 1
           /\ Len(buffer.content[1]) = 0) =>
          /\ logs = <<LogEntry("error", "Excel sheet is empty.", <<>>)>>
          /\ writeCalls = <<>>

C5_Witness ==
    /\ Len(writeCalls) = 1
    /\ writeCalls[1].status = "inflight"
    /\ FirstRecordOk
    /\ fetchCalls[1].status = "ok"
    /\ Len(jsonData) = 1

\* C6: at most one batch write call is in flight at any time, the calls are
\* issued in partition order, and every call but the latest has returned
\* successfully.
C6_SequentialWrites ==
    /\ Cardinality({i \in DOMAIN writeCalls : writeCalls[i].status = "inflight"}) <= 1
    /\ Len(writeCalls) <= Len(batches)
    /\ \A i \in DOMAIN writeCalls :
          /\ writeCalls[i].batch = batches[i]
          /\ i < Len(writeCalls) => writeCalls[i].status = "ok"

C6_Witness ==
    /\ Len(writeCalls) = 3
    /\ writeCalls[3].status = "inflight"
    /\ writeCalls[1].status = "ok"
    /\ writeCalls[2].status = "ok"

\* C7 (as stated): after all batch writes succeeded the handler logs the
\* number of written items, which is the number of rows that passed
\* validation, and, if rows failed, their number together with the full list
\* of diagnostics; without a fully successful write phase the uploaded-count
\* log never appears.
C7_Original ==
    pc = "Done" =>
        IF AllWritesSucceeded
        THEN /\ logs[1] = UploadedLog(Len(ValidPositions))
             /\ Len(InvalidPositions) = 0 => Len(logs) = 1
             /\ Len(InvalidPositions) # 0 =>
                   /\ Len(logs) = 2
                   /\ logs[2].msg \in
                         {"skipped " \o ToString(Len(InvalidPositions)) \o " rows:",
                          "skipped " \o ToString(Len(InvalidPositions))
                                     \o " rows due to validation errors."}
                   /\ logs[2].args = ExpectedErrors
        ELSE \A i \in DOMAIN logs :
                 logs[i].msg \notin {UploadedLog(n).msg : n \in 0..MaxRows}

\* C8: at most one fetch call is made, for the bucket and the decoded key of
\* the first record; later records cause nothing: when the first record is
\* unusable the invocation ends with the one invalid-format error, without
\* fetch or write, whatever follows it, and when the first record is usable
\* no invalid-format error is logged for an unusable later one.
C8_OnlyFirstRecord ==
    /\ Len(fetchCalls) <= 1
    /\ fetchCalls # <<>> =>
          /\ FirstRecordOk
          /\ fetchCalls[1].Bucket = event.Records[1].name
          /\ fetchCalls[1].Key = decodeURIComponent(ReplacePlus(event.Records[1].key)).out
    /\ CountMsg("Invalid event format") <= 1
    /\ FirstRecordOk => CountMsg("Invalid event format") = 0
    /\ (pc = "Done" /\ event.hasRecords /\ ~FirstRecordOk) =>
          /\ logs = <<LogEntry("error", "Invalid event format", <<>>)>>
          /\ fetchCalls = <<>>
          /\ writeCalls = <<>>

C8_Witness ==
    /\ Len(event.Records) = 2
    /\ event.Records[2].name = "b2"
    /\ Len(fetchCalls) = 1
    /\ fetchCalls[1].Bucket = "b1"
    /\ pc = "Done"
    /\ AllWritesSucceeded

\* C9: when every row of the sheet failed validation, the finished invocation
\* has logged the generic no-valid-records warning and nothing else: no log
\* entry carries or is one of the per-row diagnostics.
C9_DiagnosticsNotSurfaced ==
    (pc = "Done" /\ AllRowsInvalid) =>
        /\ logs = <<LogEntry("warn", "No valid records found.", <<>>)>>
        /\ \A i \in DOMAIN logs :
              /\ Range(logs[i].args) \cap Range(ExpectedErrors) = {}
              /\ logs[i].msg \notin Range(ExpectedErrors)

C9_Witness ==
    /\ pc = "Done"
    /\ AllRowsInvalid
    /\ Len(jsonData) = 3
    /\ Cardinality(Range(errors)) = 3
    /\ Len(logs) = 1

\* C10: after every call of the reducer the batches, concatenated in order,
\* are exactly the items reduced so far, every batch is non-empty and holds at
\* most BATCH_SIZE items, and the batch sizes add up to the number of items:
\* at the end of the reduce the batches partition the input contiguously.
C10_BatchesPartitionItems ==
    /\ Concat(pAcc) = SubSeq(pItems, 1, pIndex)
    /\ Len(Concat(pAcc)) = pIndex
    /\ \A b \in DOMAIN pAcc : Len(pAcc[b]) >= 1 /\ Len(pAcc[b]) <= BATCH_SIZE

C10_Witness ==
    /\ pIndex = Len(pItems)
    /\ Len(pItems) = 2 * BATCH_SIZE + 2
    /\ Len(pAcc) = 3
    /\ pAcc[3] = SubSeq(pItems, 2 * BATCH_SIZE + 1, 2 * BATCH_SIZE + 2)

\* C11: n items are partitioned into ceil(n / BATCH_SIZE) batches, every batch
\* but the last holds exactly BATCH_SIZE items and the item at 0-based source
\* position i is the one at offset i mod BATCH_SIZE of batch
\* floor(i / BATCH_SIZE); 52 items give batches of 25, 25 and 2 items and no
\* item gives no batch; an invocation whose batch writes all succeeded issued
\* exactly ceil(n / BATCH_SIZE) write calls for its n valid rows.
CeilDiv(n) == (n + BATCH_SIZE - 1) \div BATCH_SIZE

Chunked(bs, items, n) ==
    /\ Len(bs) = CeilDiv(n)
    /\ \A b \in 1..(Len(bs) - 1) : Len(bs[b]) = BATCH_SIZE
    /\ \A i \in 0..(n - 1) :
          /\ (i % BATCH_SIZE) + 1 <= Len(bs[(i \div BATCH_SIZE) + 1])
          /\ bs[(i \div BATCH_SIZE) + 1][(i % BATCH_SIZE) + 1] = items[i + 1]

C11_BatchCountAndPlacement ==
    /\ Chunked(pAcc, pItems, pIndex)
    /\ pIndex = 0 => pAcc = <<>>
    /\ pIndex = 52 => [b \in DOMAIN pAcc |-> Len(pAcc[b])] = <<25, 25, 2>>
    /\ batches # <<>> => Chunked(batches, putRequests, Len(putRequests))
    /\ AllWritesSucceeded => Len(writeCalls) = CeilDiv(Len(ValidPositions))

C11_Witness ==
    /\ pc = "Done"
    /\ AllWritesSucceeded
    /\ Len(ValidPositions) = 52
    /\ [b \in DOMAIN writeCalls |-> Len(writeCalls[b].batch)] = <<25, 25, 2>>

----
(* The five checks of validateUser, one by one *)
Reasons ==
    << "Empty row", "Missing or invalid 'userId'", "Missing or invalid 'name'",
       "Invalid 'email'", "Invalid 'profileImageUrl'" >>

FailsUserId(row) ==
    ~Truthy(row.userId) \/ TypeOf(row.userId) \notin {"string", "number"}

FailsName(row) == ~Truthy(row.name) \/ TypeOf(row.name) # "string"

FailsEmail(row) ==
    \/ ~Truthy(row.email)
    \/ TypeOf(row.email) # "string"
    \/ ~isValidEmail(row.email.s)

FailsUrl(row) ==
    Truthy(row.profileImageUrl) /\ ~isValidUrl(ToChars(row.profileImageUrl))

Fails(row) ==
    << isRowEmpty(row), FailsUserId(row), FailsName(row), FailsEmail(row),
       FailsUrl(row) >>

FailedChecks(row) == { k \in 1..5 : Fails(row)[k] }

FirstFailed(row) == CHOOSE k \in FailedChecks(row) : \A j \in FailedChecks(row) : k <= j

\* C12: validateUser applies emptiness, userId, name, email, profileImageUrl
\* in that order and stops at the first check that fails: the reported reason
\* is the one of the lowest-numbered failing check, and the row is Valid
\* exactly when no check fails.
C12_FirstFailingCheckReported ==
    vResult.done =>
        IF FailedChecks(vRow) = {}
        THEN vResult.valid /\ vResult.error = ""
        ELSE /\ ~vResult.valid
             /\ vResult.error = RowMsg(vIndex, Reasons[FirstFailed(vRow)])

\* a non-empty row failing the userId, name, email and URL checks at once
C12_Witness ==
    /\ vResult.done
    /\ FailedChecks(vRow) = {2, 3, 4, 5}
    /\ vResult.error = "Row 2: Missing or invalid 'userId'"

\* present and either a non-empty string or a number
UserIdAcceptable(v) ==
    \/ TypeOf(v) = "string" /\ v.s # <<>>
    \/ TypeOf(v) = "number"

\* C13: for every non-empty row the userId check passes exactly when userId
\* is a non-empty string or a number, 0 included; in every other case the
\* outcome is Invalid with reason "Missing or invalid 'userId'".
C13_Original ==
    (vResult.done /\ ~isRowEmpty(vRow)) =>
        IF UserIdAcceptable(vRow.userId)
        THEN vResult.error # RowMsg(vIndex, Reasons[2])
        ELSE ~vResult.valid /\ vResult.error = RowMsg(vIndex, Reasons[2])

\* what the code does for every userId other than the number 0
C13_ExceptZero ==
    (vResult.done /\ ~isRowEmpty(vRow) /\ vRow.userId # Num(0)) =>
        IF UserIdAcceptable(vRow.userId)
        THEN vResult.error # RowMsg(vIndex, Reasons[2])
        ELSE ~vResult.valid /\ vResult.error = RowMsg(vIndex, Reasons[2])

\* the numeric userId 0 on an otherwise good row is turned down
C13_ZeroRejected ==
    /\ vResult.done
    /\ vRow.userId = Num(0)
    /\ ~FailsName(vRow) /\ ~FailsEmail(vRow) /\ ~FailsUrl(vRow)
    /\ vResult.error = "Row 2: Missing or invalid 'userId'"

\* e = local \o "@" \o domain \o "." \o tld with non-empty parts, where
\* local and domain hold no space and no "@", and tld holds no space and,
\* when tldNoAt, no "@" either
EmailShape(e, tldNoAt) ==
    \E local, domain, tld \in { SubSeq(e, a, b) : a \in 1..Len(e), b \in 1..Len(e) } :
        /\ local # <<>> /\ domain # <<>> /\ tld # <<>>
        /\ e = local \o <<"@">> \o domain \o <<".">> \o tld
        /\ \A c \in Range(local) \cup Range(domain) : c # " " /\ c # "@"
        /\ \A c \in Range(tld) : c # " " /\ (tldNoAt => c # "@")

PassesFirstThree(row) == ~isRowEmpty(row) /\ ~FailsUserId(row) /\ ~FailsName(row)

EmailOutcome(tldNoAt) ==
    (vResult.done /\ PassesFirstThree(vRow)) =>
        IF TypeOf(vRow.email) = "string" /\ EmailShape(vRow.email.s, tldNoAt)
        THEN vResult.error # RowMsg(vIndex, Reasons[4])
        ELSE ~vResult.valid /\ vResult.error = RowMsg(vIndex, Reasons[4])

\* C14 as stated: after the emptiness, userId and name checks, the email
\* check passes exactly when email is a string local@domain.tld whose local
\* and domain parts hold no space and no "@" and whose last part holds no
\* space; otherwise the outcome is Invalid with reason "Invalid 'email'".
C14_Original == EmailOutcome(FALSE)

\* C14: the same, with a last part that holds no "@" either, so that an
\* address has exactly one "@".
C14_EmailShape == EmailOutcome(TRUE)

\* an address with a second "@" in its last part is turned down
C14_Witness ==
    /\ vResult.done
    /\ PassesFirstThree(vRow)
    /\ vRow.email = Str(<<"a", "@", "b", ".", "c", "@", "d">>)
    /\ vResult.error = "Row 2: Invalid 'email'"

\* http:// or https:// followed by one or more non-space characters
UrlShape(u) ==
    \E p \in { <<"h", "t", "t", "p", ":", "/", "/">>,
               <<"h", "t", "t", "p", "s", ":", "/", "/">> } :
        \E rest \in { SubSeq(u, a, Len(u)) : a \in 1..Len(u) } :
            /\ u = p \o rest
            /\ rest # <<>>
            /\ \A c \in Range(rest) : c # " "

PassesFirstFour(row) == PassesFirstThree(row) /\ ~FailsEmail(row)

AbsentOrEmpty(v) == v \in {Undefined, Null, Str(<<>>)}

\* C15: after the userId, name and email checks, an absent or empty
\* profileImageUrl gives Valid and an item with the empty string as
\* profileImage; a present value gives Valid only when it is an http:// or
\* https:// URL and otherwise Invalid with reason "Invalid 'profileImageUrl'".
C15_Original ==
    (vResult.done /\ PassesFirstFour(vRow)) =>
        IF AbsentOrEmpty(vRow.profileImageUrl)
        THEN /\ vResult.valid
             /\ vItem # <<>> => vItem[1].profileImage = Str(<<>>)
        ELSE IF TypeOf(vRow.profileImageUrl) = "string" /\ UrlShape(vRow.profileImageUrl.s)
        THEN vResult.valid
        ELSE ~vResult.valid /\ vResult.error = RowMsg(vIndex, Reasons[5])

\* what the code does for every profileImageUrl other than 0 and false
C15_ExceptFalsy ==
    (vResult.done /\ PassesFirstFour(vRow) /\ vRow.profileImageUrl \notin {Num(0), Bool(FALSE)}) =>
        IF AbsentOrEmpty(vRow.profileImageUrl)
        THEN /\ vResult.valid
             /\ vItem # <<>> => vItem[1].profileImage = Str(<<>>)
        ELSE IF TypeOf(vRow.profileImageUrl) = "string" /\ UrlShape(vRow.profileImageUrl.s)
        THEN vResult.valid /\ (vItem # <<>> => vItem[1].profileImage = vRow.profileImageUrl)
        ELSE ~vResult.valid /\ vResult.error = RowMsg(vIndex, Reasons[5])

\* a row whose profileImageUrl is the number 0 is accepted and written with
\* the number as profileImage
C15_FalsyWritten ==
    /\ vResult.done /\ vResult.valid
    /\ vRow.profileImageUrl = Num(0)
    /\ vItem # <<>>
    /\ vItem[1].profileImage = Num(0)

\* the filter of handler has run over the rows of this invocation
RowsValidated ==
    \/ pc \in {"Validated", "Writing", "BatchesWritten"}
    \/ pc = "Done" /\ (validUsers # <<>> \/ errors # <<>>)

\* C16: validation gives one outcome per row and keeps the order of the rows:
\* valid rows plus diagnostics number as many as the decoded rows, validUsers
\* is the rows that passed in their original order, errors is the diagnostics
\* of the failed rows by ascending position, and the i-th write item is built
\* from the i-th valid row.
C16_OneOutcomePerRowInOrder ==
    IF RowsValidated
    THEN /\ Len(jsonData) >= 1
         /\ Len(validUsers) + Len(errors) = Len(jsonData)
         /\ Then(ValidPositions, LAMBDA vp :
               validUsers = [k \in DOMAIN vp |-> jsonData[vp[k]]])
         /\ Then(InvalidPositions, LAMBDA ip :
               /\ errors = [k \in DOMAIN ip |-> validateUser(jsonData[ip[k]], ip[k] - 1).error]
               /\ \A k \in 1..(Len(ip) - 1) : ip[k] < ip[k + 1])
         /\ pc \in {"Writing", "BatchesWritten"} =>
               /\ Len(putRequests) = Len(validUsers)
               /\ \A k \in DOMAIN putRequests : putRequests[k] = PutRequest(validUsers[k])
    ELSE validUsers = <<>> /\ errors = <<>> /\ putRequests = <<>>

\* a sheet of 52 rows where valid and failed rows alternate
C16_Witness ==
    /\ pc = "BatchesWritten"
    /\ Len(jsonData) = 52
    /\ Len(validUsers) > BATCH_SIZE
    /\ Len(errors) >= 2
    /\ Len(putRequests) = Len(validUsers)
    /\ ~validateUser(jsonData[1], 0).valid
    /\ validateUser(jsonData[2], 1).valid

\* the five diagnostics a row displayed as number n can get
DiagTexts(n) == { "Row " \o ToString(n) \o ": " \o Reasons[r] : r \in 1..5 }

\* the reasons among the diagnostics of the invocation
ReasonsSeen ==
    { r \in 1..5 : \E k \in DOMAIN errors :
          \E n \in 2..(Len(jsonData) + 1) :
              errors[k] = "Row " \o ToString(n) \o ": " \o Reasons[r] }

\* C17: the diagnostic of the row at 0-based position i is "Row {i+2}: " and
\* one of the five reasons; the first row is reported as "Row 2", and no two
\* diagnostics of one invocation carry the same row number.
C17_DiagnosticFormat ==
    RowsValidated =>
        Then([n \in 2..(Len(jsonData) + 1) |-> DiagTexts(n)], LAMBDA texts :
        Then(InvalidPositions, LAMBDA ip :
            /\ Len(errors) = Len(ip)
            /\ \A k \in DOMAIN errors : errors[k] \in texts[(ip[k] - 1) + 2]
            /\ (ip # <<>> /\ ip[1] = 1) =>
                  errors[1] \in { "Row 2: " \o Reasons[r] : r \in 1..5 }
            /\ \A k, l \in DOMAIN errors : \A n \in DOMAIN texts :
                  (errors[k] \in texts[n] /\ errors[l] \in texts[n]) => k = l))

\* a sheet whose failed rows show all five reasons, the first row included
C17_Witness ==
    /\ RowsValidated
    /\ errors # <<>>
    /\ errors[1] = "Row 2: Empty row"
    /\ Len(errors) >= 8
    /\ errors[8] = "Row 9: Invalid 'email'"
    /\ ReasonsSeen = 1..5

----
\* the position of pc in the text of handler
PcRank(p) ==
    CASE p = "Start" -> 0
      [] p = "EventValidated" -> 1
      [] p = "Fetching" -> 2
      [] p = "Streaming" -> 3
      [] p = "ObjectFetched" -> 4
      [] p = "Decoded" -> 5
      [] p = "RowsExtracted" -> 6
      [] p = "Validated" -> 7
      [] p = "Writing" -> 8
      [] p = "BatchesWritten" -> 9
      [] OTHER -> 10

\* the state of the invocation: 0 Start, 1 EventValidated (the fetch is
\* under way), 2 ObjectFetched, 3 Decoded, 4 RowsExtracted, 5 Validated (the
\* writes are under way), 6 BatchesWritten, 7 Done
Stage(p) ==
    CASE p = "Start" -> 0
      [] p \in {"EventValidated", "Fetching", "Streaming"} -> 1
      [] p = "ObjectFetched" -> 2
      [] p = "Decoded" -> 3
      [] p = "RowsExtracted" -> 4
      [] p \in {"Validated", "Writing"} -> 5
      [] p = "BatchesWritten" -> 6
      [] OTHER -> 7

Failed == CountMsg("Lambda failed:") > 0

\* the step that ends an invocation whose rows all failed: the rows have
\* their outcomes, the warning is logged, nothing is written
NoValidRowsStep ==
    /\ pc = "RowsExtracted" /\ pc' = "Done"
    /\ validUsers' = <<>>
    /\ Len(errors') = Len(jsonData)
    /\ logs' = Append(logs, LogEntry("warn", "No valid records found.", <<>>))
    /\ writeCalls' = writeCalls

\* a call log to which a step that ends in the catch block can lead
Thrown(calls) ==
    {calls} \cup (IF calls # <<>> THEN {Settle(calls, "throw")} ELSE {})

ForwardStep ==
    /\ pc # "Done"
    /\ PcRank(pc) <= PcRank(pc')
    /\ \/ Stage(pc') \in {Stage(pc), Stage(pc) + 1}
       \/ pc' = "Done"
    /\ pc' = pc => pc = "Writing"
    /\ (Failed' /\ ~Failed) =>
          /\ pc' = "Done"
          /\ logs'[Len(logs')].msg = "Lambda failed:"
    /\ (pc' = "Done" /\ Stage(pc) = 4 /\ ~Failed') => NoValidRowsStep
    /\ (pc' = "Done" /\ Stage(pc) < 6) =>
          /\ writeCalls' \in Thrown(writeCalls)
          /\ table' = table
          /\ fetchCalls' \in Thrown(fetchCalls)
          /\ <<buffer, jsonData, putRequests, batches>>' =
                <<buffer, jsonData, putRequests, batches>>
          /\ workbook' # workbook => workbook' = <<>>

\* an invocation that failed did none of the later steps
LaterStepsSkipped ==
    (pc = "Done" /\ Failed) =>
        /\ CountMsg("Lambda failed:") = 1
        /\ logs[Len(logs)].msg = "Lambda failed:"
        /\ \A i \in DOMAIN logs : logs[i].level # "log"
        /\ FetchThrew \/ StreamThrew => buffer.bytes = "none"
        /\ buffer.bytes # "xlsx" => workbook = <<>>
        /\ ~WriteThrew => writeCalls = <<>> /\ putRequests = <<>>
        /\ WriteThrew => writeCalls[Len(writeCalls)].status = "throw"

\* C18: an invocation goes Start, EventValidated, ObjectFetched, Decoded,
\* RowsExtracted, Validated, then the no-valid-rows ending or BatchesWritten,
\* then Done, only forwards; a failure of a step goes straight to Done and
\* none of the later steps is done; and when every call of a collaborator
\* returns or throws, the invocation reaches Done.
C18_ForwardToDone ==
    /\ [][ForwardStep]_vars
    /\ [](LaterStepsSkipped)
    /\ <>(pc = "Done")

\* a run through every state that ends with the summary
C18_Witness ==
    /\ pc = "Done"
    /\ ~Failed
    /\ Len(writeCalls) = 3
    /\ \E i \in DOMAIN logs : logs[i].level = "log"

----
(* Two invocations on one table *)
Min(a, b) == IF a <= b THEN a ELSE b

\* the j-th group of BATCH_SIZE items
Chunk(items, j) ==
    SubSeq(items, BATCH_SIZE * (j - 1) + 1, Min(BATCH_SIZE * j, Len(items)))

\* the batches of the calls of invocation r that the store applied
Committed(r) ==
    { j \in DOMAIN runs[r].calls : runs[r].calls[j].status = "ok" }

\* invocation r started after invocation q had failed, on the same input
RerunOf(r, q) ==
    /\ q \in runs[r].after
    /\ runs[q].failed
    /\ runs[q].items = runs[r].items

KeysOf(items) == { items[i].userId : i \in DOMAIN items }

\* C19: the handler keeps no record of what it wrote: the calls of every
\* invocation start again at the first batch, whatever the table holds; an
\* invocation re-run on the input of one that failed at batch k sends every
\* item of batches 1..k-1, which the table already holds, once more; and
\* each write is a put by userId, so the table keeps one item per key.
C19_RerunRepeatsWrites ==
    /\ \A r \in Invocations :
          /\ \A j \in DOMAIN runs[r].calls :
                runs[r].calls[j].batch = Chunk(runs[r].items, j)
          /\ \A q \in Invocations : RerunOf(r, q) =>
                LET k == Len(runs[q].calls)
                IN /\ Committed(q) = 1..(k - 1)
                   /\ \A j \in 1..(k - 1) : Range(runs[q].calls[j].batch) \subseteq table
                   /\ \A j \in 1..Min(k - 1, Len(runs[r].calls)) :
                         runs[r].calls[j].batch = runs[q].calls[j].batch
                   /\ (runs[r].pc = "Done" /\ ~runs[r].failed) =>
                         /\ Len(runs[r].calls) >= k
                         /\ Committed(r) = DOMAIN runs[r].calls
                         /\ table = Range(runs[r].items)
    /\ \A x, y \in table : x.userId = y.userId => x = y

\* the first invocation fails at its third batch, the re-run sends all three
C19_Witness ==
    /\ RerunOf(2, 1)
    /\ Len(runs[1].calls) = 3
    /\ runs[2].pc = "Done" /\ ~runs[2].failed
    /\ applied = << <<1, 1>>, <<1, 2>>, <<2, 1>>, <<2, 2>>, <<2, 3>> >>
    /\ Cardinality(table) = Len(runs[2].items)

\* the batch that the n-th applied write put
AppliedBatch(n) == runs[applied[n][1]].batches[applied[n][2]]

\* the applied writes that put an item of key u
WritesOf(u) ==
    { n \in DOMAIN applied : \E i \in DOMAIN AppliedBatch(n) : AppliedBatch(n)[i].userId = u }

Last(S) == CHOOSE n \in S : \A m \in S : m <= n

\* the table after invocation a has run alone and then invocation b
SerialTable(a, b) == PutAll(PutAll({}, runs[a].items), runs[b].items)

\* C20: invocations are not coordinated.  The writes of one invocation are
\* applied in the order of its batches, the writes of two invocations in any
\* order; for every key the table holds the item of the write applied last.
C20_LastWriteWins ==
    /\ \A r \in Invocations :
          LET mine == SelectSeq(applied, LAMBDA e : e[1] = r)
          IN /\ Len(mine) = Cardinality(Committed(r))
             /\ \A n \in DOMAIN mine : mine[n] = <<r, n>>
    /\ \A u \in KeysOf(runs[1].items) \cup KeysOf(runs[2].items) :
          IF WritesOf(u) = {}
          THEN \A x \in table : x.userId # u
          ELSE \E x \in Range(AppliedBatch(Last(WritesOf(u)))) :
                  /\ x.userId = u
                  /\ x \in table
                  /\ \A y \in table : y.userId = u => y = x

\* both inputs have two batches and different values; the writes alternate
\* and the table ends with keys of the second invocation's values beside a
\* key of the first's, which neither serial order gives
C20_Witness ==
    /\ \A r \in Invocations : runs[r].pc = "Done" /\ ~runs[r].failed
    /\ Len(runs[1].batches) = 2 /\ Len(runs[2].batches) = 2
    /\ runs[1].items # runs[2].items
    /\ applied = << <<1, 1>>, <<2, 1>>, <<2, 2>>, <<1, 2>> >>
    /\ runs[2].items[1] \in table
    /\ runs[1].items[BATCH_SIZE + 1] \in table
    /\ table \notin {SerialTable(1, 2), SerialTable(2, 1)}

====
